---- MODULE Spec2Model ----
(***************************************************************************)
(* SimpleImage block tool (src/src/index.js) as a state machine.           *)
(*                                                                         *)
(* One widget instance is modelled together with the collaborators its     *)
(* code talks to: the DOM nodes render() creates, the browser's image      *)
(* loader and object-URL store, and the host editor (paste dispatch by     *)
(* pasteConfig, stretchBlock).  JavaScript strings are sequences of        *)
(* one-character strings, so that startsWith, the paste pattern, the       *)
(* kebab-case transform and innerHTML are computed, not assumed.           *)
(***************************************************************************)
EXTENDS Integers, Sequences, FiniteSets, TLC

-----------------------------------------------------------------------------
(* Strings *)

Upper ==
    <<"A","B","C","D","E","F","G","H","I","J","K","L","M","N","O","P","Q","R","S","T","U","V","W","X","Y","Z">>

Lower ==
    <<"a","b","c","d","e","f","g","h","i","j","k","l","m","n","o","p","q","r","s","t","u","v","w","x","y","z">>

\* decimal digits used to tell object URLs apart
Digits ==
    <<"1","2","3","4","5","6","7","8","9">>

\* String.prototype.toLowerCase on one character
toLowerCase(c) ==
    IF \E i \in 1..Len(Upper) : Upper[i] = c
    THEN Lower[CHOOSE i \in 1..Len(Upper) : Upper[i] = c]
    ELSE c

\* the regular expression flag /i: compare ignoring case
lower(s) ==
    [i \in 1..Len(s) |-> toLowerCase(s[i])]

\* String.prototype.startsWith
startsWith(s, p) ==
    /\ Len(s) >= Len(p)
    /\ SubSeq(s, 1, Len(p)) = p

\* p occurs in s at index i
occursAt(s, p, i) ==
    /\ i >= 1
    /\ i + Len(p) - 1 <= Len(s)
    /\ SubSeq(s, i, i + Len(p) - 1) = p

\* the regular expression class \s
Whitespace ==
    {" ", "\t", "\n", "\r", "\f"}

\* JavaScript truthiness of a string
truthy(s) ==
    Len(s) > 0

-----------------------------------------------------------------------------
(* pasteConfig: /https?:\/\/\S+\.(gif|jpe?g|tiff|png|webp)$/i *)

Http ==
    <<"h","t","t","p">>

SchemeSep ==
    <<":","/","/">>

gif ==
    <<"g","i","f">>

jpg ==
    <<"j","p","g">>

jpeg ==
    <<"j","p","e","g">>

tiff ==
    <<"t","i","f","f">>

png ==
    <<"p","n","g">>

webp ==
    <<"w","e","b","p">>

Extensions ==
    {gif, jpg, jpeg, tiff, png, webp}

\* the pattern matches text from index i: "http", an optional "s", "://",
\* one or more non-whitespace characters, ".", an extension, end of input
matchesFrom(t, i) ==
    \E s \in {0, 1} : \E e \in Extensions :
        LET body == i + Len(Http) + s + Len(SchemeSep)
            dot  == Len(t) - Len(e)
        IN  /\ occursAt(t, Http, i)
            /\ s = 1 => occursAt(t, <<"s">>, i + Len(Http))
            /\ occursAt(t, SchemeSep, i + Len(Http) + s)
            /\ dot > body
            /\ \A k \in body..(dot - 1) : t[k] \notin Whitespace
            /\ t[dot] = "."
            /\ occursAt(t, e, dot + 1)

\* imagePattern with a fault: the extension is not looked at
imagePattern_anyExtension(text) ==
    \E i \in 1..Len(text) :
        \E s \in {0, 1} :
            /\ occursAt(lower(text), Http, i)
            /\ s = 1 => occursAt(lower(text), <<"s">>, i + Len(Http))
            /\ occursAt(lower(text), SchemeSep, i + Len(Http) + s)
            /\ Len(text) > i + Len(Http) + s + Len(SchemeSep)

\* pasteConfig.patterns.image.test(text)
imagePattern(text) ==
    \E i \in 1..Len(text) : matchesFrom(lower(text), i)

\* pasteConfig.files.mimeTypes: 'image/*'
imageMime(type) ==
    startsWith(type, <<"i","m","a","g","e","/">>)

-----------------------------------------------------------------------------
(* URLs *)

BlobPrefix ==
    <<"b","l","o","b",":">>

\* the document's base URL
BaseURL ==
    <<"h","t","t","p","s",":","/","/","h","/">>

\* createObjectURL with a fault: every call hands out the same URL
createObjectURL_same(n) ==
    BlobPrefix \o <<Digits[1]>>

\* URL.createObjectURL: the n-th object URL the browser hands out; the
\* browser's unique id is the counter's digit
createObjectURL(n) ==
    BlobPrefix \o <<Digits[n]>>

\* the src IDL attribute of an <img>: the content attribute resolved against
\* the document's base URL (absolute URLs of the inputs are already in
\* serialised form and resolve to themselves; an absent attribute reads "")
resolveURL(u) ==
    IF u = << >> THEN << >>
    ELSE IF \/ startsWith(u, Http \o SchemeSep)
            \/ startsWith(u, Http \o <<"s">> \o SchemeSep)
            \/ startsWith(u, BlobPrefix)
         THEN u
         ELSE BaseURL \o u

-----------------------------------------------------------------------------
(* innerHTML of the caption element.  The content of the element is a      *)
(* sequence of child items: a one-character string is a character of text, *)
(* TagBr is a <br> element.  Inputs hold no other markup.                  *)

BR ==
    "<br>"

TagBr ==
    <<"<","b","r",">">>

EntAmp ==
    <<"&","a","m","p",";">>

EntLt ==
    <<"&","l","t",";">>

EntGt ==
    <<"&","g","t",";">>

\* the innerHTML setter: the HTML fragment parser
RECURSIVE parseHTML(_)
parseHTML(s) ==
    IF s = << >> THEN << >>
    ELSE IF startsWith(s, TagBr)  THEN <<BR>>  \o parseHTML(SubSeq(s, Len(TagBr) + 1, Len(s)))
    ELSE IF startsWith(s, EntAmp) THEN <<"&">> \o parseHTML(SubSeq(s, Len(EntAmp) + 1, Len(s)))
    ELSE IF startsWith(s, EntLt)  THEN <<"<">> \o parseHTML(SubSeq(s, Len(EntLt) + 1, Len(s)))
    ELSE IF startsWith(s, EntGt)  THEN <<">">> \o parseHTML(SubSeq(s, Len(EntGt) + 1, Len(s)))
    ELSE <<Head(s)>> \o parseHTML(Tail(s))

\* the innerHTML getter: the HTML fragment serialiser
RECURSIVE serializeHTML(_)
serializeHTML(items) ==
    IF items = << >> THEN << >>
    ELSE (CASE Head(items) = BR  -> TagBr
            [] Head(items) = "&" -> EntAmp
            [] Head(items) = "<" -> EntLt
            [] Head(items) = ">" -> EntGt
            [] OTHER             -> <<Head(items)>>) \o serializeHTML(Tail(items))

-----------------------------------------------------------------------------
(* Inputs *)

UrlPicPNG ==
    <<"h","t","t","p","s",":","/","/","e","x","a","m","p","l","e",".","c","o","m","/","p","i","c",".","P","N","G">>

UrlPicTxt ==
    <<"h","t","t","p","s",":","/","/","e","x","a","m","p","l","e",".","c","o","m","/","p","i","c",".","t","x","t">>

UrlJpeg ==
    <<"h","t","t","p",":","/","/","a",".","b","/","c",".","j","p","e","g">>

UrlSpace ==
    <<"h","t","t","p","s",":","/","/","a"," ","b",".","p","n","g">>

UrlNoName ==
    <<"h","t","t","p","s",":","/","/",".","p","n","g">>

UrlRelative ==
    <<"p",".","g","i","f">>

\* an object URL of an earlier session, found in saved data
StaleBlob ==
    <<"b","l","o","b",":","0">>

NameCat ==
    <<"c","a","t",".","p","n","g">>

NameAmp ==
    <<"a","&","b">>

CaptionBr ==
    <<"A","<","b","r",">","B">>

MimePng ==
    <<"i","m","a","g","e","/","p","n","g">>

MimeText ==
    <<"t","e","x","t","/","p","l","a","i","n">>

\* the caption a user types: text, a line break, text
TypedCaption ==
    <<"H", BR, "i">>

\* the five fields of SimpleImageData
Fields ==
    {"url", "caption", "withBorder", "withBackground", "stretched"}

\* an object without own properties
EmptyObject ==
    [k \in {} |-> FALSE]

\* what the host hands to the constructor, with the index of its current
\* block: a new block, and blocks saved earlier
ConstructorArgs ==
    { [data |-> EmptyObject, readOnly |-> FALSE, current |-> -1],
      [data |-> [withBorder |-> TRUE], readOnly |-> FALSE, current |-> 0],
      [data |-> [url |-> UrlJpeg, caption |-> CaptionBr, withBorder |-> TRUE,
                 withBackground |-> FALSE, stretched |-> TRUE],
       readOnly |-> TRUE, current |-> 0],
      [data |-> [url |-> StaleBlob, caption |-> NameAmp], readOnly |-> FALSE, current |-> 0],
      [data |-> [url |-> UrlRelative, withBackground |-> TRUE], readOnly |-> FALSE,
       current |-> -1] }

\* texts the user pastes
PasteTexts ==
    {UrlPicPNG, UrlPicTxt, UrlSpace, UrlNoName}

\* the src of pasted <img> elements, as the element reports it (an absolute
\* URL; tags are not matched against the pattern)
TagSources ==
    {UrlPicTxt}

\* files the user drops, pastes or picks
Files ==
    { [name |-> NameCat, type |-> MimePng],
      [name |-> NameAmp, type |-> MimeText] }

\* event.type values of paste events other than the three of pasteConfig
OtherEventTypes ==
    {"other"}

\* the values a write gives the fields, in two variants
WriteValues ==
    { [url |-> UrlPicPNG, caption |-> NameCat, withBorder |-> TRUE,
       withBackground |-> TRUE, stretched |-> TRUE],
      [url |-> UrlPicTxt, caption |-> NameAmp, withBorder |-> FALSE,
       withBackground |-> FALSE, stretched |-> FALSE] }

\* partial records written through the setter: no field, one field, two
\* fields or all five
PartialWrites ==
    { [k \in D |-> v[k]] :
        D \in {D \in SUBSET Fields : Cardinality(D) <= 2 \/ D = Fields},
        v \in WriteValues }

\* writes through the setter in a run of SpecWrite
MaxWrites ==
    2

\* pastes and drops the host handles for one block
MaxPastes ==
    2

\* activations of the withBorder tune on one block
MaxToggles ==
    2

\* calls of removed() the host makes on one block
MaxRemoved ==
    2

-----------------------------------------------------------------------------
(* State *)

VARIABLES
    _data,       \* this._data: the record
    nodes,       \* this.nodes: the node cache
    blockIndex,  \* this.blockIndex
    readOnly,    \* this.readOnly
    loadButton,  \* the variable `loadButton` of render(), captured by its callbacks
    dom,         \* the nodes render() made: children, classes, src, caption content
    imageLoad,   \* the browser's load of the <img>: "idle", "loading", "failing"
    objectURLs,  \* the browser's object-URL store
    host,        \* the host editor: its block index and stretchBlock calls
    last,        \* the last call: its name, its argument, whether it threw
    hist         \* history of the run

vars ==
    <<_data, nodes, blockIndex, readOnly, loadButton, dom, imageLoad, objectURLs, host, last, hist>>

\* this.tunes, in order
tunes ==
    <<"withBorder", "stretched", "withBackground">>

NameWithBorder ==
    <<"w","i","t","h","B","o","r","d","e","r">>

NameStretched ==
    <<"s","t","r","e","t","c","h","e","d">>

NameWithBackground ==
    <<"w","i","t","h","B","a","c","k","g","r","o","u","n","d">>

\* this.CSS.imageHolder
ClsImageHolder ==
    <<"c","d","x","-","s","i","m","p","l","e","-","i","m","a","g","e","_","_","p","i","c","t","u","r","e">>

\* tune.name as a string
tuneName(t) ==
    CASE t = "withBorder"     -> NameWithBorder
      [] t = "stretched"      -> NameStretched
      [] t = "withBackground" -> NameWithBackground

\* kebab with a fault: capitals are lowered and no dash is put before them
RECURSIVE kebab_noDash(_)
kebab_noDash(s) ==
    IF s = << >> THEN << >>
    ELSE <<toLowerCase(Head(s))>> \o kebab_noDash(Tail(s))

\* name.replace(/([A-Z])/g, (g) => `-${g[0].toLowerCase()}`)
RECURSIVE kebab(_)
kebab(s) ==
    IF s = << >> THEN << >>
    ELSE IF \E i \in 1..Len(Upper) : Upper[i] = Head(s)
         THEN <<"-", toLowerCase(Head(s))>> \o kebab(Tail(s))
         ELSE <<Head(s)>> \o kebab(Tail(s))

\* this.CSS.imageHolder + '--' + kebab-case of the tune's name
modifier(t) ==
    ClsImageHolder \o <<"-", "-">> \o kebab(tuneName(t))

\* the modifier class of each tune
tuneClass ==
    [t \in {"withBorder", "stretched", "withBackground"} |-> modifier(t)]

\* Object.assign({}, target, source): own properties of source win
assign(target, source) ==
    [k \in (DOMAIN target) \cup (DOMAIN source) |->
        IF k \in DOMAIN source THEN source[k] ELSE target[k]]

\* the record the constructor writes (lines 76-82)
constructor(data) ==
    [url            |-> IF "url" \in DOMAIN data /\ truthy(data.url) THEN data.url ELSE << >>,
     caption        |-> IF "caption" \in DOMAIN data /\ truthy(data.caption) THEN data.caption ELSE << >>,
     withBorder     |-> IF "withBorder" \in DOMAIN data THEN data.withBorder ELSE FALSE,
     withBackground |-> IF "withBackground" \in DOMAIN data THEN data.withBackground ELSE FALSE,
     stretched      |-> IF "stretched" \in DOMAIN data THEN data.stretched ELSE FALSE]

\* the node cache after construction
NoNodes ==
    [wrapper |-> "null", imageHolder |-> "null", image |-> "null", caption |-> "null",
     loader |-> "undefined", loadButton |-> "undefined"]

\* no node exists before render()
NoDom ==
    [wrapper     |-> << >>,   \* children of the wrapper, in order
     imageHolder |-> << >>,   \* children of the image container
     wrapperCls  |-> {},      \* classList of the wrapper
     holderCls   |-> {},      \* classList of the image container
     src         |-> << >>,   \* src content attribute of the <img>
     caption     |-> << >>,   \* child items of the caption element
     editable    |-> FALSE]   \* contentEditable of the caption element

\* the state the constructor leaves, lines 30-104
constructed(args) ==
    /\ _data = assign(EmptyObject, constructor(args.data))
    /\ nodes = NoNodes
    /\ readOnly = args.readOnly
    /\ blockIndex = args.current + 1
    /\ host = [current |-> args.current, stretched |-> {}, calls |-> {}]
    /\ loadButton = "undefined"
    /\ dom = NoDom
    /\ imageLoad = "idle"
    /\ objectURLs = [next |-> 1, live |-> {}, revoked |-> << >>]
    /\ last = [op |-> "constructor", arg |-> args.data, thrown |-> FALSE]
    /\ hist = [initial |-> constructor(args.data), held |-> {constructor(args.data).url},
               toggles |-> 0, pastes |-> 0, rejected |-> 0, removed |-> 0, writes |-> << >>,
               typed |-> FALSE, currentAtConstruction |-> args.current]

Init ==
    \E args \in ConstructorArgs : constructed(args)

-----------------------------------------------------------------------------
(* DOM and browser helpers *)

\* render() has run
rendered ==
    nodes.wrapper # "null"

\* the block is in the document: the host calls its hooks and the user can
\* reach it until removed(); after that only callbacks of the browser arrive
\* (and removed() itself, should the host repeat it)
inDocument ==
    rendered /\ hist.removed = 0

contains(children, n) ==
    \E i \in 1..Len(children) : children[i] = n

without(children, n) ==
    SelectSeq(children, LAMBDA x : x # n)

\* parent.appendChild(n): n becomes the last child
appendChild(children, n) ==
    without(children, n) \o <<n>>

\* n.remove(): n leaves its parent, if it has one
removeNode(d, n) ==
    [d EXCEPT !.wrapper = without(@, n), !.imageHolder = without(@, n)]

\* blockContent.querySelector('img') finds the image
hasImage(d) ==
    /\ contains(d.wrapper, "imageHolder")
    /\ contains(d.imageHolder, "image")

\* classList.toggle(c, force)
toggle(cls, c, force) ==
    IF force THEN cls \cup {c} ELSE cls \ {c}

\* image.src = u starts a load; an empty src and an object URL that is not
\* live can only fail
startLoad(u, store) ==
    IF ~truthy(u) \/ (startsWith(u, BlobPrefix) /\ u \notin store.live)
    THEN "failing"
    ELSE "loading"

\* URL.revokeObjectURL(u)
revokeObjectURL(store, u) ==
    [store EXCEPT !.live = @ \ {u}, !.revoked = Append(@, u)]

\* the store after URL.createObjectURL(file)
created(store) ==
    [store EXCEPT !.next = @ + 1, !.live = @ \cup {createObjectURL(store.next)}]

\* api.blocks.stretchBlock(index, status)
stretchBlock(h, index, status) ==
    [h EXCEPT !.stretched = IF status THEN @ \cup {index} ELSE @ \ {index},
              !.calls = @ \cup {index}]

-----------------------------------------------------------------------------
(* The guarded accessor, lines 305-324 *)

\* setData with a fault: Object.assign({}, data, this.data), the held fields win
setData_swapped(rec, data) ==
    assign(data, rec)

\* set data(data): this._data = Object.assign({}, this.data, data)
setData(rec, data) ==
    assign(rec, data)

\* syncView with a fault: the caption element is left as it is
syncView_urlOnly(d, n, rec) ==
    [d EXCEPT !.src = IF n.image # "null" THEN rec.url ELSE @]

\* set data(data): the view after the write
syncView(d, n, rec) ==
    [d EXCEPT !.src     = IF n.image # "null" THEN rec.url ELSE @,
              !.caption = IF n.caption # "null" THEN parseHTML(rec.caption) ELSE @]

\* set data(data): assigning image.src starts a load
syncLoad(cur, n, rec, store) ==
    IF n.image # "null" THEN startLoad(rec.url, store) ELSE cur

\* the urls the record has held
holding(h, rec) ==
    [h EXCEPT !.held = @ \cup {rec.url}]

\* what a call leaves in `last`
call(op, arg, thrown) ==
    [op |-> op, arg |-> arg, thrown |-> thrown]

-----------------------------------------------------------------------------
(* Tunes, lines 353-361 and 393-411 *)

\* _acceptTuneView(): the classList of the image container
_acceptTuneView(cls, rec) ==
    toggle(toggle(toggle(cls,
        tuneClass[tunes[1]], rec[tunes[1]]),
        tuneClass[tunes[2]], rec[tunes[2]]),
        tuneClass[tunes[3]], rec[tunes[3]])

\* notifyStretch with a fault: the index is the host's current block index
\* plus one at the time of the call
notifyStretch_current(h, index, rec) ==
    stretchBlock(h, h.current + 1, rec.stretched)

\* _acceptTuneView, line 408: the host is told the stretched flag of the
\* block at this.blockIndex
notifyStretch(h, index, rec) ==
    stretchBlock(h, index, rec.stretched)

\* renderSettings(): isActive of each tune
renderSettings ==
    [i \in 1..Len(tunes) |-> [name |-> tunes[i], toggle |-> TRUE, isActive |-> _data[tunes[i]]]]

\* flipped with a fault: the flag is set, not flipped
flipped_set(rec, tune) ==
    [rec EXCEPT ![tune] = TRUE]

\* _toggleTune(tune): the record with the flag flipped in place
flipped(rec, tune) ==
    [rec EXCEPT ![tune] = ~@]

\* _toggleTune with a fault: the flag is written through the setter, which
\* assigns image.src and caption.innerHTML again
_toggleTune_viaSetter(tune) ==
    /\ inDocument
    /\ tune = "withBorder" => hist.toggles < MaxToggles
    /\ _data' = flipped(_data, tune)
    /\ dom' = [syncView(dom, nodes, flipped(_data, tune))
                  EXCEPT !.holderCls = _acceptTuneView(@, flipped(_data, tune))]
    /\ host' = notifyStretch(host, blockIndex, flipped(_data, tune))
    /\ hist' = [hist EXCEPT !.toggles = IF tune = "withBorder" THEN @ + 1 ELSE @]
    /\ last' = call("_toggleTune", tune, FALSE)
    /\ UNCHANGED <<nodes, blockIndex, readOnly, loadButton, imageLoad, objectURLs>>

\* onActivate of a tune: _toggleTune(tune)
_toggleTune(tune) ==
    /\ inDocument
    /\ tune = "withBorder" => hist.toggles < MaxToggles
    /\ _data' = flipped(_data, tune)
    /\ dom' = [dom EXCEPT !.holderCls = _acceptTuneView(@, flipped(_data, tune))]
    /\ host' = notifyStretch(host, blockIndex, flipped(_data, tune))
    /\ hist' = [hist EXCEPT !.toggles = IF tune = "withBorder" THEN @ + 1 ELSE @]
    /\ last' = call("_toggleTune", tune, FALSE)
    /\ UNCHANGED <<nodes, blockIndex, readOnly, loadButton, imageLoad, objectURLs>>

-----------------------------------------------------------------------------
(* render(), lines 121-184, and its callbacks *)

render ==
    /\ ~rendered
    /\ nodes' = [wrapper |-> "wrapper", imageHolder |-> "imageHolder", image |-> "image",
                 caption |-> "caption", loader |-> "loader", loadButton |-> "loadButton"]
    /\ loadButton' = "loadButton"
    /\ dom' = [wrapper     |-> IF truthy(_data.url) THEN <<"loader">> ELSE <<"loadButton">>,
               imageHolder |-> << >>,
               wrapperCls  |-> {"baseClass", "wrapper"},
               holderCls   |-> {ClsImageHolder},
               src         |-> IF truthy(_data.url) THEN _data.url ELSE << >>,
               caption     |-> parseHTML(_data.caption),
               editable    |-> ~readOnly]
    /\ imageLoad' = IF truthy(_data.url) THEN startLoad(_data.url, objectURLs) ELSE "idle"
    /\ host' = [host EXCEPT !.current = @ + 1]    \* the rendered block becomes the current one (lines 38-45)
    /\ last' = call("render", "none", FALSE)
    /\ UNCHANGED <<_data, blockIndex, readOnly, objectURLs, hist>>

\* loaded with a fault: the loader stays in the tree
loaded_keepsLoader(d, button) ==
    LET d1 == [d EXCEPT !.imageHolder = appendChild(@, "image")]
        d2 == [d1 EXCEPT !.wrapper = appendChild(appendChild(@, "imageHolder"), "caption")]
    IN  IF button # "null" THEN removeNode(d2, "loadButton") ELSE d2

\* the tree after image.onload, lines 146-154
loaded(d, button) ==
    LET d1 == [d EXCEPT !.wrapperCls = @ \ {"loading"},
                        !.imageHolder = appendChild(@, "image")]
        d2 == [d1 EXCEPT !.wrapper = appendChild(appendChild(@, "imageHolder"), "caption")]
        d3 == removeNode(d2, "loader")
    IN  IF button # "null" THEN removeNode(d3, "loadButton") ELSE d3

\* image.onload: the browser finished loading the image
onload ==
    /\ imageLoad = "loading"
    /\ dom' = [loaded(dom, loadButton) EXCEPT !.holderCls = _acceptTuneView(@, _data)]
    /\ loadButton' = "null"
    /\ nodes' = [nodes EXCEPT !.loader = "null"]
    /\ host' = notifyStretch(host, blockIndex, _data)
    /\ imageLoad' = "idle"
    /\ last' = call("onload", "none", FALSE)
    /\ UNCHANGED <<_data, blockIndex, readOnly, objectURLs, hist>>

\* onerror with a fault: the handler takes the loader out of the tree
onerror_dropsLoader ==
    /\ imageLoad \in {"loading", "failing"}
    /\ imageLoad' = "idle"
    /\ dom' = removeNode(dom, "loader")
    /\ last' = call("onerror", "none", FALSE)
    /\ UNCHANGED <<_data, nodes, blockIndex, readOnly, loadButton, objectURLs, host, hist>>

\* image.onerror: the browser failed to load the image; the handler logs
onerror ==
    /\ imageLoad \in {"loading", "failing"}
    /\ imageLoad' = "idle"
    /\ last' = call("onerror", "none", FALSE)
    /\ UNCHANGED <<_data, nodes, blockIndex, readOnly, loadButton, dom, objectURLs, host, hist>>

\* loadButton.onchange: the user picked a file with the file input
onchange(file) ==
    /\ inDocument
    /\ contains(dom.wrapper, "loadButton")
    /\ LET url == createObjectURL(objectURLs.next)
           rec == setData(_data, [url |-> url, caption |-> file.name])
       IN  /\ objectURLs' = created(objectURLs)
           /\ _data' = rec
           /\ dom' = removeNode(syncView(dom, nodes, rec), "loadButton")
           /\ imageLoad' = syncLoad(imageLoad, nodes, rec, created(objectURLs))
           /\ hist' = holding(hist, rec)
    /\ loadButton' = "null"
    /\ last' = call("onchange", file, FALSE)
    /\ UNCHANGED <<nodes, blockIndex, readOnly, host>>

\* the user edits the caption element
editCaption ==
    /\ inDocument
    /\ dom.editable
    /\ contains(dom.wrapper, "caption")
    /\ dom.caption # TypedCaption
    /\ dom' = [dom EXCEPT !.caption = TypedCaption]
    /\ hist' = [hist EXCEPT !.typed = TRUE]
    /\ last' = call("editCaption", "none", FALSE)
    /\ UNCHANGED <<_data, nodes, blockIndex, readOnly, loadButton, imageLoad, objectURLs, host>>

-----------------------------------------------------------------------------
(* removed(), lines 186-190, and save(), lines 197-209 *)

\* removed() revokes this.data.url
revokes(rec) ==
    truthy(rec.url) /\ startsWith(rec.url, BlobPrefix)

removed ==
    /\ rendered
    /\ hist.removed < MaxRemoved
    /\ objectURLs' = IF revokes(_data) THEN revokeObjectURL(objectURLs, _data.url) ELSE objectURLs
    /\ hist' = [hist EXCEPT !.removed = @ + 1]
    /\ last' = call("removed", "none", FALSE)
    /\ UNCHANGED <<_data, nodes, blockIndex, readOnly, loadButton, dom, imageLoad, host>>

\* saved with a fault: the nodes are read whether or not the image is in the tree
saved_unguarded(rec, d) ==
    assign(rec, [url |-> resolveURL(d.src), caption |-> serializeHTML(d.caption)])

\* saved with a fault: the caption is taken from the record, not from the node
saved_heldCaption(rec, d) ==
    IF ~hasImage(d)
    THEN rec
    ELSE assign(rec, [url |-> resolveURL(d.src)])

\* the record save(blockContent) returns, and leaves in this._data
saved(rec, d) ==
    IF ~hasImage(d)
    THEN rec
    ELSE assign(rec, [url |-> resolveURL(d.src), caption |-> serializeHTML(d.caption)])

save ==
    /\ inDocument
    /\ _data' = saved(_data, dom)
    /\ hist' = holding(hist, saved(_data, dom))
    /\ last' = call("save", "none", FALSE)
    /\ UNCHANGED <<nodes, blockIndex, readOnly, loadButton, dom, imageLoad, objectURLs, host>>

-----------------------------------------------------------------------------
(* onPaste(event), lines 262-298, and the host's paste dispatch *)

\* written with a fault: the pasted text is normalised to lower case
written_normalised(event, url) ==
    CASE event.type = "tag"     -> [url |-> event.src]
      [] event.type = "pattern" -> [url |-> lower(event.data)]
      [] event.type = "file"    -> [url |-> url, caption |-> event.file.name]

\* the partial record onPaste writes for the event; url is a new object URL
written(event, url) ==
    CASE event.type = "tag"     -> [url |-> event.src]
      [] event.type = "pattern" -> [url |-> event.data]
      [] event.type = "file"    -> [url |-> url, caption |-> event.file.name]

\* the switch of onPaste has a case for the event
recognized(event) ==
    event.type \in {"tag", "pattern", "file"}

\* dropLoadButton with a fault: the file input stays in the tree
dropLoadButton_kept(d) ==
    d

\* lines 296-297: the file input leaves the tree
dropLoadButton(d) ==
    removeNode(d, "loadButton")

onPaste(event) ==
    /\ inDocument
    /\ hist.pastes + hist.rejected < MaxPastes
    /\ LET store  == IF event.type = "file" THEN created(objectURLs) ELSE objectURLs
           rec    == IF recognized(event)
                     THEN setData(_data, written(event, createObjectURL(objectURLs.next)))
                     ELSE _data
           d      == IF recognized(event) THEN syncView(dom, nodes, rec) ELSE dom
           throws == nodes.loadButton \in {"null", "undefined"}
       IN  /\ objectURLs' = store
           /\ _data' = rec
           /\ imageLoad' = IF recognized(event) THEN syncLoad(imageLoad, nodes, rec, store)
                           ELSE imageLoad
           /\ dom' = IF throws THEN d ELSE dropLoadButton(d)
           /\ nodes' = IF throws THEN nodes ELSE [nodes EXCEPT !.loadButton = "null"]
           /\ hist' = [holding(hist, rec) EXCEPT !.pastes = @ + 1]
           /\ last' = call("onPaste", event, throws)
    /\ UNCHANGED <<blockIndex, readOnly, loadButton, host>>

\* the host found no tool for the pasted data: nothing is called
notDelivered(event) ==
    /\ inDocument
    /\ hist.pastes + hist.rejected < MaxPastes
    /\ hist' = [hist EXCEPT !.rejected = @ + 1]
    /\ last' = call("notDelivered", event, FALSE)
    /\ UNCHANGED <<_data, nodes, blockIndex, readOnly, loadButton, dom, imageLoad, objectURLs, host>>

\* pasteConfig.patterns.image.test(text) of each pasted text
patternTest ==
    [text \in PasteTexts |-> imagePattern(text)]

\* the host pastes an <img> tag (pasteConfig.tags)
pasteTag(src) ==
    onPaste([type |-> "tag", src |-> src])

\* the host pastes text: onPaste is called when pasteConfig.patterns.image matches
pastePattern(text) ==
    IF patternTest[text]
    THEN onPaste([type |-> "pattern", data |-> text])
    ELSE notDelivered([type |-> "pattern", data |-> text])

\* the host pastes or drops a file: onPaste is called when pasteConfig.files matches
pasteFile(file) ==
    IF imageMime(file.type)
    THEN onPaste([type |-> "file", file |-> file])
    ELSE notDelivered([type |-> "file", file |-> file])

\* the host calls onPaste with an event of another type
pasteOther(type) ==
    onPaste([type |-> type])

-----------------------------------------------------------------------------
(* The widget in its host *)

Next ==
    \/ render
    \/ onload
    \/ onerror
    \/ \E file \in Files : onchange(file)
    \/ editCaption
    \/ \E src \in TagSources : pasteTag(src)
    \/ \E text \in PasteTexts : pastePattern(text)
    \/ \E file \in Files : pasteFile(file)
    \/ \E type \in OtherEventTypes : pasteOther(type)
    \/ \E t \in {tunes[i] : i \in 1..Len(tunes)} : _toggleTune(t)
    \/ save
    \/ removed

Spec ==
    Init /\ [][Next]_vars

-----------------------------------------------------------------------------
(* The guarded setter on its own: `this.data = W` for arbitrary partial W *)

write(W) ==
    /\ Len(hist.writes) < MaxWrites
    /\ _data' = setData(_data, W)
    /\ dom' = syncView(dom, nodes, setData(_data, W))
    /\ imageLoad' = syncLoad(imageLoad, nodes, setData(_data, W), objectURLs)
    /\ hist' = [holding(hist, setData(_data, W)) EXCEPT !.writes = Append(@, W)]
    /\ last' = call("set data", W, FALSE)
    /\ UNCHANGED <<nodes, blockIndex, readOnly, loadButton, objectURLs, host>>

NextWrite ==
    \/ render
    \/ onload
    \/ onerror
    \/ editCaption
    \/ \E W \in PartialWrites : write(W)

SpecWrite ==
    Init /\ [][NextWrite]_vars

-----------------------------------------------------------------------------
(* Properties *)

\* the value of field f after the writes ws onto a record holding v
RECURSIVE latest(_, _, _)
latest(f, ws, v) ==
    IF ws = << >> THEN v
    ELSE IF f \in DOMAIN ws[Len(ws)] THEN ws[Len(ws)][f]
    ELSE latest(f, SubSeq(ws, 1, Len(ws) - 1), v)

\* C1: after partial writes W1 then W2 through the setter, every one of the
\* five fields is present and holds W2's value if W2 names it, else W1's
\* value if W1 names it, else its value in the starting record.
C1_MergeFieldByField ==
    /\ DOMAIN _data = Fields
    /\ \A f \in Fields : _data[f] = latest(f, hist.writes, hist.initial[f])

\* C1 witness: two writes were made; one field is named by both with
\* different values, one by the first only, one by neither.
C1_Witness ==
    /\ Len(hist.writes) = 2
    /\ \E f, g, h \in Fields :
        /\ f \in DOMAIN hist.writes[1] /\ f \in DOMAIN hist.writes[2]
        /\ hist.writes[1][f] # hist.writes[2][f]
        /\ g \in DOMAIN hist.writes[1] /\ g \notin DOMAIN hist.writes[2]
        /\ hist.writes[1][g] # hist.initial[g]
        /\ h \notin DOMAIN hist.writes[1] /\ h \notin DOMAIN hist.writes[2]

\* the object URLs this widget created
createdURLs ==
    {createObjectURL(n) : n \in 1..(objectURLs.next - 1)}

\* how often u was handed to URL.revokeObjectURL
revocations(u) ==
    Cardinality({i \in 1..Len(objectURLs.revoked) : objectURLs.revoked[i] = u})

\* C2: once removed() has run on a widget whose url is an object URL it
\* created, that URL has been revoked exactly once, however often removed()
\* was called.
C2_RevokedExactlyOnce ==
    (hist.removed >= 1 /\ _data.url \in createdURLs) => revocations(_data.url) = 1

\* C3: once removed() has run, every object URL the widget created has been
\* revoked.
C3_AllCreatedRevoked ==
    hist.removed >= 1 => \A u \in createdURLs : revocations(u) >= 1

\* the file input is in the block's tree
pickerShown ==
    contains(dom.wrapper, "loadButton")

\* C4: after render(), a non-empty url means the file input is not in the
\* tree, and a file input that has left the tree never returns.
C4_PickerGoneForGood ==
    /\ [](rendered /\ truthy(_data.url) => ~pickerShown)
    /\ [][rendered /\ ~pickerShown => ~pickerShown']_vars

\* C4 witness: a block rendered without url showed the file input, then got
\* a url, and the file input is gone.
C4_Witness ==
    /\ rendered
    /\ ~truthy(hist.initial.url)
    /\ truthy(_data.url)
    /\ ~pickerShown

\* C5: an onPaste whose event type is none of tag, pattern, file changes
\* neither the record nor the node cache nor the tree, and does not throw.
C5_UnrecognizedPasteIsNoOp ==
    [][(last'.op = "onPaste" /\ ~recognized(last'.arg))
        => (_data' = _data /\ nodes' = nodes /\ dom' = dom /\ ~last'.thrown)]_vars

\* C6: no call on a rendered widget throws.
C6_NothingThrows ==
    ~last.thrown

\* the image container carries the border modifier class
borderClass ==
    tuneClass["withBorder"] \in dom.holderCls

\* C7 as claimed: whatever the initial flag, after the first withBorder
\* toggle the border class is present, and after the second the flag is the
\* initial one and the class is absent.
C7_PresentThenAbsent ==
    /\ hist.toggles = 1 => borderClass
    /\ hist.toggles = 2 => (_data.withBorder = hist.initial.withBorder /\ ~borderClass)

\* C7 amended: after n >= 1 withBorder toggles the flag is the initial one if
\* n is even and its negation if n is odd, and the border class is present
\* exactly if the flag is true (present then absent for an initially false
\* flag, absent then present for an initially true one).
C7_FlagRestoredClassFollowsFlag ==
    hist.toggles >= 1 =>
        /\ _data.withBorder = (IF hist.toggles % 2 = 0 THEN hist.initial.withBorder
                               ELSE ~hist.initial.withBorder)
        /\ borderClass <=> _data.withBorder

\* C7 witness: an initially true flag toggled twice.
C7_Witness ==
    /\ hist.initial.withBorder
    /\ hist.toggles = 2
    /\ borderClass

\* the step is a file acquisition of file f
acquired(l, f) ==
    \/ l.op = "onchange" /\ l.arg = f
    \/ l.op = "onPaste" /\ l.arg.type = "file" /\ l.arg.file = f

\* C8: a file acquisition (file paste or drop, or a pick) writes an object
\* URL created by that call: non-empty, live, never held by the record
\* before; caption becomes the file's name; the three flags stay.
C8_FileAcquisition ==
    [][\A f \in Files : acquired(last', f) =>
        /\ truthy(_data'.url)
        /\ startsWith(_data'.url, BlobPrefix)
        /\ _data'.url \in objectURLs'.live \ objectURLs.live
        /\ _data'.url \notin hist.held
        /\ _data'.caption = f.name
        /\ \A i \in 1..Len(tunes) : _data'[tunes[i]] = _data[tunes[i]]]_vars

\* C8 witness: a file was pasted onto a record that already held an object
\* URL of an earlier acquisition.
C8_Witness ==
    /\ last.op = "onPaste"
    /\ last.arg.type = "file"
    /\ \E u \in hist.held : startsWith(u, BlobPrefix) /\ u \in createdURLs /\ u # _data.url
    /\ _data.url \in createdURLs
    /\ _data.caption = last.arg.file.name

\* C9: pasting the text https://example.com/pic.PNG reaches onPaste; a
\* pattern paste leaves url equal to the pasted text, character by character,
\* a tag paste leaves url equal to the element's src, and both leave caption
\* and the three flags as they were.
C9_PasteSetsUrlOnly ==
    [][/\ (last'.op = "notDelivered" /\ last'.arg.type = "pattern") => last'.arg.data # UrlPicPNG
       /\ (last'.op = "onPaste" /\ last'.arg.type = "pattern") =>
            _data' = [_data EXCEPT !.url = last'.arg.data]
       /\ (last'.op = "onPaste" /\ last'.arg.type = "tag") =>
            _data' = [_data EXCEPT !.url = last'.arg.src]]_vars

\* C9 witness: https://example.com/pic.PNG was pasted onto a record with a
\* caption and a flag set, and is the url.
C9_Witness ==
    /\ last.op = "onPaste"
    /\ last.arg.type = "pattern"
    /\ last.arg.data = UrlPicPNG
    /\ _data.url = UrlPicPNG
    /\ truthy(_data.caption)
    /\ _data.stretched

\* pasted texts that are no image URL: another extension, whitespace in the
\* URL, nothing before the extension
NonImageTexts ==
    {UrlPicTxt, UrlSpace, UrlNoName}

\* C10: pasting a text that does not match the image-URL pattern leaves url
\* as it was.
C10_NonMatchingTextSetsNoUrl ==
    [][(last'.op \in {"onPaste", "notDelivered"} /\ last'.arg.type = "pattern"
          /\ last'.arg.data \in NonImageTexts)
        => _data'.url = _data.url]_vars

\* C10 witness: https://example.com/pic.txt was pasted onto a block that
\* holds a url.
C10_Witness ==
    /\ last.op = "notDelivered"
    /\ last.arg.type = "pattern"
    /\ last.arg.data = UrlPicTxt
    /\ truthy(_data.url)

\* C11: save() on a block whose tree holds no image returns the held record
\* as it is and changes nothing else; on a block whose record never held a
\* url the returned url is empty.
C11_SaveWithoutImage ==
    [][(last'.op = "save" /\ ~hasImage(dom)) =>
        /\ _data' = _data
        /\ UNCHANGED <<nodes, loadButton, dom, imageLoad, objectURLs, host>>
        /\ hist.held = {<< >>} => _data'.url = << >>]_vars

\* C11 witness: save() ran while the image of a block with a url and a
\* caption was still loading.
C11_Witness ==
    /\ last.op = "save"
    /\ ~hasImage(dom)
    /\ imageLoad = "loading"
    /\ _data.url = UrlRelative

\* C12: save() on a block whose tree holds the image leaves in the record,
\* and returns, the image's src as the element reports it, the caption
\* element's innerHTML and the held flags; a save() right after a save()
\* returns an equal record.
C12_SaveReadsLiveNodes ==
    [][(last'.op = "save" /\ hasImage(dom)) =>
        /\ _data'.url = resolveURL(dom.src)
        /\ _data'.caption = serializeHTML(dom.caption)
        /\ \A i \in 1..Len(tunes) : _data'[tunes[i]] = _data[tunes[i]]
        /\ DOMAIN _data' = Fields
        /\ last.op = "save" => _data' = _data]_vars

\* the caption the user typed, as innerHTML reads it
TypedHTML ==
    <<"H", "<", "b", "r", ">", "i">>

\* C12 witness: save() picked up a caption the user typed and that no write
\* had put in the record, and a src resolved against the document.
C12_Witness ==
    /\ last.op = "save"
    /\ hasImage(dom)
    /\ dom.caption = TypedCaption
    /\ _data.caption = TypedHTML
    /\ hist.initial.caption # TypedHTML
    /\ _data.url = BaseURL \o UrlRelative

\* C13: when the image has loaded, the loader is out of the tree and out of
\* the node cache, the image is in the image container, the container and
\* then the caption are in the wrapper, the file input is out of the tree,
\* and the container carries the modifier class of exactly the tunes whose
\* flag is set.
C13_AfterLoad ==
    last.op = "onload" =>
        /\ ~contains(dom.wrapper, "loader")
        /\ nodes.loader = "null"
        /\ dom.imageHolder = <<"image">>
        /\ dom.wrapper = <<"imageHolder", "caption">>
        /\ ~contains(dom.wrapper, "loadButton")
        /\ \A i \in 1..Len(tunes) : (tuneClass[tunes[i]] \in dom.holderCls) <=> _data[tunes[i]]

\* C13 witness: the image of a pasted url loaded in a block that had shown
\* the file input; a tune is on.
C13_Witness ==
    /\ last.op = "onload"
    /\ ~truthy(hist.initial.url)
    /\ hist.pastes >= 1
    /\ _data.withBorder

\* C14: a write through the setter made after render() leaves the image
\* element's src equal to the record's new url and the caption element's
\* content equal to the record's new caption as HTML, whether or not the
\* write names caption; a write made before render() changes the record only.
C14_WriteSyncsView ==
    [][last'.op = "set data" =>
        /\ rendered =>
            /\ dom'.src = _data'.url
            /\ dom'.caption = parseHTML(_data'.caption)
        /\ ~rendered => UNCHANGED <<nodes, loadButton, dom, imageLoad, objectURLs, host>>]_vars

\* C14 witness: the one write of the run named no caption and came after the
\* user had typed a caption; the caption element shows the held caption again.
C14_Witness ==
    /\ last.op = "set data"
    /\ Len(hist.writes) = 1
    /\ "caption" \notin DOMAIN last.arg
    /\ "url" \in DOMAIN last.arg
    /\ hist.typed
    /\ dom.caption # TypedCaption
    /\ dom.caption = parseHTML(_data.caption)
    /\ dom.src = _data.url

\* C15: every call of the host's stretchBlock names the index taken at
\* construction, the host's current block index at that time plus one; after
\* a tune activation or an image load the host holds that block stretched
\* exactly when the record's stretched flag is set.
C15_StretchAtConstructionIndex ==
    /\ blockIndex = hist.currentAtConstruction + 1
    /\ host.calls \subseteq {hist.currentAtConstruction + 1}
    /\ host.stretched \subseteq {hist.currentAtConstruction + 1}
    /\ last.op \in {"_toggleTune", "onload"} =>
        /\ host.calls = {blockIndex}
        /\ (blockIndex \in host.stretched) <=> _data.stretched

\* C15 witness: the host's current block index has moved on since
\* construction, and the stretch tune was switched on.
C15_Witness ==
    /\ last.op = "_toggleTune"
    /\ last.arg = "stretched"
    /\ _data.stretched
    /\ ~hist.initial.stretched
    /\ host.current # hist.currentAtConstruction
    /\ host.stretched = {blockIndex}

\* C16 as claimed: once removed() has run, an image.onload delivered
\* afterwards changes neither the tree nor the node cache and does not call
\* the host's stretchBlock.
C16_LoadAfterRemovedHasNoEffect ==
    [][(hist.removed >= 1 /\ last'.op = "onload") =>
        /\ dom' = dom
        /\ nodes' = nodes
        /\ loadButton' = loadButton
        /\ host' = host]_vars

\* C17: image.onerror leaves the record, the node cache and the tree as they
\* were (no image and no caption attached by it, a shown loader still
\* shown), calls no host method and throws nothing.
C17_ErrorChangesNothing ==
    [][last'.op = "onerror" =>
        /\ _data' = _data
        /\ nodes' = nodes
        /\ loadButton' = loadButton
        /\ dom' = dom
        /\ contains(dom.wrapper, "loader") => contains(dom'.wrapper, "loader")
        /\ ~hasImage(dom) => ~hasImage(dom')
        /\ ~contains(dom.wrapper, "caption") => ~contains(dom'.wrapper, "caption")
        /\ host' = host
        /\ objectURLs' = objectURLs
        /\ ~last'.thrown]_vars

\* C17 witness: the load of the url the block was constructed with failed;
\* the loader is still shown and neither image nor caption is attached.
C17_Witness ==
    /\ last.op = "onerror"
    /\ truthy(_data.url)
    /\ dom.wrapper = <<"loader">>
    /\ nodes.loader = "loader"
    /\ ~hasImage(dom)
    /\ host.calls = {}

\* the modifier classes as the stylesheet names them
ClsWithBorder ==
    <<"c","d","x","-","s","i","m","p","l","e","-","i","m","a","g","e","_","_","p","i","c","t","u","r","e",
      "-","-","w","i","t","h","-","b","o","r","d","e","r">>

ClsStretched ==
    <<"c","d","x","-","s","i","m","p","l","e","-","i","m","a","g","e","_","_","p","i","c","t","u","r","e",
      "-","-","s","t","r","e","t","c","h","e","d">>

ClsWithBackground ==
    <<"c","d","x","-","s","i","m","p","l","e","-","i","m","a","g","e","_","_","p","i","c","t","u","r","e",
      "-","-","w","i","t","h","-","b","a","c","k","g","r","o","u","n","d">>

\* C18: whenever the image container is in the wrapper, and after every
\* tune activation, the container has the class --with-border, --stretched,
\* --with-background exactly when the flag withBorder, stretched,
\* withBackground of the record is true.
C18_ClassesFollowFlags ==
    (contains(dom.wrapper, "imageHolder") \/ last.op = "_toggleTune") =>
        /\ (ClsWithBorder \in dom.holderCls) <=> _data.withBorder
        /\ (ClsStretched \in dom.holderCls) <=> _data.stretched
        /\ (ClsWithBackground \in dom.holderCls) <=> _data.withBackground
        /\ dom.holderCls \subseteq {ClsImageHolder, ClsWithBorder, ClsStretched, ClsWithBackground}

\* C18 witness: the container is attached, withBorder was switched off by a
\* toggle and withBackground, set at construction, still has its class.
C18_Witness ==
    /\ contains(dom.wrapper, "imageHolder")
    /\ last.op = "_toggleTune"
    /\ hist.initial.withBackground
    /\ ClsWithBackground \in dom.holderCls
    /\ ClsWithBorder \notin dom.holderCls
    /\ hist.toggles = 2
    /\ ~_data.withBorder

\* C19: a tune activation negates the flag of that tune and leaves the other
\* flags, url and caption of the record, the image's src, the caption
\* element's content, the children of wrapper and container and the node
\* cache as they were.
C19_ToggleFlipsOneFlag ==
    [][last'.op = "_toggleTune" =>
        /\ _data' = [_data EXCEPT ![last'.arg] = ~@]
        /\ dom'.src = dom.src
        /\ dom'.caption = dom.caption
        /\ dom'.wrapper = dom.wrapper
        /\ dom'.imageHolder = dom.imageHolder
        /\ nodes' = nodes
        /\ loadButton' = loadButton
        /\ imageLoad' = imageLoad]_vars

\* C19 witness: a tune was activated while the caption element held text the
\* user typed and the record did not.
C19_Witness ==
    /\ last.op = "_toggleTune"
    /\ last.arg = "withBackground"
    /\ dom.caption = TypedCaption
    /\ _data.caption # TypedHTML
    /\ hasImage(dom)
====
